---- MODULE Spec2Model ----
(***************************************************************************)
(* Model of src/data_cleaner.py: a linear pipeline                         *)
(*   read_data -> handle_missing_values -> remove_duplicates               *)
(*             -> standardize_dates -> save_cleaned_data                   *)
(* driven by main().  A table (pandas DataFrame) is a record               *)
(*   [cols |-> sequence of [name, dtype], rows |-> sequence of rows]       *)
(* and a row is a tuple of cells.  A cell is a record [k, n, s]:           *)
(*   k = "null"  missing value (NaN / None / NaT)                          *)
(*   k = "num"   a number; n holds TWICE its value, so that the median of  *)
(*               an even number of integers (a half) stays an integer      *)
(*   k = "str"   a text cell, s is the text                                *)
(*   k = "date"  a timestamp, s is its canonical rendering                 *)
(* Names and paths are sequences of one-character strings, so that         *)
(* str.lower(), the substring test and os.path.splitext are computed.      *)
(*                                                                         *)
(* Library semantics assumed (pandas 1.x / 2.x, without copy-on-write):    *)
(* df[col].fillna(v, inplace=True) updates the column of df;               *)
(* Series.median() and Series.mode() skip nulls, mode() returns the modes  *)
(* sorted; drop_duplicates() keeps the first occurrence and treats null as *)
(* equal to null; to_datetime(errors='coerce') maps what it cannot parse   *)
(* to NaT.                                                                 *)
(***************************************************************************)
EXTENDS Integers, Sequences, FiniteSets, TLC

VARIABLES pc, input, output, df, prev, log, calls, written, success,
          exitCode, fault

vars == <<pc, input, output, df, prev, log, calls, written, success,
          exitCode, fault>>

\* ------------------------------------------------------------------ bounds
\* Largest number of rows of a two-column table handed to one pipeline stage.
MaxRows == 3
\* Largest number of rows of a one-column table handed to one pipeline stage.
MaxRowsOneColumn == 4
\* Largest number of rows of a file read by a whole run of main().
MaxRowsMain == 2

\* ------------------------------------------------------------------- cells
NullCell == [k |-> "null", n |-> 0, s |-> ""]
Num(v) == [k |-> "num", n |-> 2 * v, s |-> ""]
NumHalves(h) == [k |-> "num", n |-> h, s |-> ""]
Str(t) == [k |-> "str", n |-> 0, s |-> t]
Date(t) == [k |-> "date", n |-> 0, s |-> t]

\* Series.isnull(), cell by cell
IsNull(c) == c.k = "null"

\* the values a file may hold in a column of each dtype
NumCells == {Num(1), Num(2), NullCell}
StrCells == {Str("2024-01-01"), Str("a"), Str("b"), NullCell}

\* ------------------------------------------------------------- text helpers
\* str.lower() on the characters that occur in the names and paths used here
LowerChar(c) ==
    CASE c = "A" -> "a" [] c = "B" -> "b" [] c = "C" -> "c" [] c = "D" -> "d"
      [] c = "I" -> "i" [] c = "L" -> "l"
      [] c = "N" -> "n" [] c = "O" -> "o" [] c = "S" -> "s" [] c = "V" -> "v" [] c = "X" -> "x"
      [] OTHER -> c

Lower(s) == [i \in 1..Len(s) |-> LowerChar(s[i])]

\* Python's  pat in s  on strings
Contains(pat, s) ==
    \E i \in 1..(Len(s) - Len(pat) + 1) : SubSeq(s, i, i + Len(pat) - 1) = pat

\* os.path.splitext(p)[1]: the text from the last dot of the last path
\* component, unless that component has nothing but dots before it
SplitExt(p) ==
    LET sep == IF \E i \in 1..Len(p) : p[i] = "/"
               THEN CHOOSE i \in 1..Len(p) :
                        p[i] = "/" /\ \A j \in (i+1)..Len(p) : p[j] # "/"
               ELSE 0
        dots == {i \in (sep+1)..Len(p) : p[i] = "."}
    IN IF dots = {} THEN <<>>
       ELSE LET d == CHOOSE i \in dots : \A j \in dots : j <= i
            IN IF \E j \in (sep+1)..(d-1) : p[j] # "."
               THEN SubSeq(p, d, Len(p))
               ELSE <<>>

ExtCsv == <<".", "c", "s", "v">>
ExtXlsx == <<".", "x", "l", "s", "x">>
ExtXls == <<".", "x", "l", "s">>

\* _, ext = os.path.splitext(path.lower())
PathExt(p) == SplitExt(Lower(p))

\* ------------------------------------------------------------------ tables
EmptyTable == [cols |-> <<>>, rows |-> <<>>]

NCols(t) == Len(t.cols)
NRows(t) == Len(t.rows)

\* df[col] as a sequence of cells
Column(t, j) == [i \in 1..NRows(t) |-> t.rows[i][j]]

\* df[col].isnull().any()
HasNull(c) == \E i \in 1..Len(c) : IsNull(c[i])

\* df[col].isnull().sum()
NullCount(c) == Cardinality({i \in 1..Len(c) : IsNull(c[i])})

\* df.select_dtypes(include=['number']) / (exclude=['number'])
IsNumberColumn(t, j) == t.cols[j].dtype = "number"

\* ----------------------------------------------------- handle_missing_values
NotNull(c) == ~IsNull(c)
LessNum(a, b) == a.n < b.n

\* Series.median(): nulls skipped; the middle value of the sorted values, the
\* mean of the two middle values when their number is even, NaN when none
Median(c) ==
    LET v == SortSeq(SelectSeq(c, NotNull), LessNum)
        m == Len(v)
    IN IF m = 0 THEN NullCell
       ELSE IF m % 2 = 1 THEN v[(m + 1) \div 2]
       ELSE NumHalves((v[m \div 2].n + v[m \div 2 + 1].n) \div 2)

\* the order of Python strings (by code point) on the texts that occur
StrOrder == <<"2024-01-01", "Unknown", "a", "b">>
StrRank(t) == CHOOSE i \in 1..Len(StrOrder) : StrOrder[i] = t
LessStr(a, b) == StrRank(a.s) < StrRank(b.s)

Count(c, v) == Cardinality({i \in 1..Len(c) : c[i] = v})

\* the distinct non-null values of a column, in order of first occurrence
Uniques(c) ==
    LET idx == SelectSeq([i \in 1..Len(c) |-> i],
                         LAMBDA i : NotNull(c[i])
                                    /\ \A j \in 1..(i-1) : c[j] # c[i])
    IN [k \in 1..Len(idx) |-> c[idx[k]]]

\* the most frequent non-null values, in order of first occurrence
ModeValues(c) ==
    LET u == Uniques(c)
    IN SelectSeq(u, LAMBDA v : \A k \in 1..Len(u) : Count(c, u[k]) <= Count(c, v))

\* variant of Mode: the modes are not sorted
ModeFirstSeen(c) == ModeValues(c)

\* Series.mode(): nulls dropped, the most frequent values, sorted
Mode(c) == SortSeq(ModeValues(c), LessStr)

\* mode_val = df[col].mode()[0] if not df[col].mode().empty else "Unknown"
ModeVal(c) == IF Mode(c) # <<>> THEN Mode(c)[1] ELSE Str("Unknown")

\* variant of FillNa: only the first null is filled
FillFirst(c, v) ==
    [i \in 1..Len(c) |->
        IF IsNull(c[i]) /\ \A j \in 1..(i-1) : ~IsNull(c[j]) THEN v ELSE c[i]]

\* variant of FillNa: every cell is overwritten
FillAll(c, v) == [i \in 1..Len(c) |-> v]

\* Series.fillna(v): a NaN fill value leaves the nulls null
FillNa(c, v) == [i \in 1..Len(c) |-> IF IsNull(c[i]) THEN v ELSE c[i]]

\* the value a column's nulls are filled with
FillValue(t, j) ==
    IF IsNumberColumn(t, j) THEN Median(Column(t, j)) ELSE ModeVal(Column(t, j))

\* the table after both loops: every column that has a null is filled
FilledTable(t) ==
    [t EXCEPT !.rows =
        [i \in 1..NRows(t) |->
            [j \in 1..NCols(t) |->
                IF HasNull(Column(t, j))
                THEN FillNa(Column(t, j), FillValue(t, j))[i]
                ELSE t.rows[i][j]]]]

LogEntry(level, msg, col, val, n) ==
    [level |-> level, msg |-> msg, col |-> col, val |-> val, n |-> n]

\* one line per filled column: the fill value and df[col].isnull().sum(),
\* which is evaluated after fillna has run
FillLog(t, j) ==
    LogEntry("INFO", IF IsNumberColumn(t, j) THEN "fill_median" ELSE "fill_mode",
             t.cols[j].name, FillValue(t, j),
             NullCount(Column(FilledTable(t), j)))

\* the lines of the numeric loop, then those of the categorical loop
FillLogs(t) ==
    LET all == [j \in 1..NCols(t) |-> j]
        num == SelectSeq(all, LAMBDA j : IsNumberColumn(t, j) /\ HasNull(Column(t, j)))
        cat == SelectSeq(all, LAMBDA j : ~IsNumberColumn(t, j) /\ HasNull(Column(t, j)))
        idx == num \o cat
    IN [k \in 1..Len(idx) |-> FillLog(t, idx[k])]

HandleMissingValuesLog(t) ==
    <<LogEntry("INFO", "handle_missing", <<>>, NullCell, 0)>> \o FillLogs(t)

\* --------------------------------------------------------- remove_duplicates
\* DataFrame.duplicated(): cells compare equal when they hold the same value,
\* and a null equals a null
CellEq(a, b) == a = b

RowEq(r1, r2) == \A j \in 1..Len(r1) : CellEq(r1[j], r2[j])

\* variant of Duplicated: keep='last'
DuplicatedKeepLast(rows, i) == \E j \in (i+1)..Len(rows) : RowEq(rows[j], rows[i])

\* keep='first': a row is a duplicate when an earlier row equals it
Duplicated(rows, i) == \E j \in 1..(i-1) : RowEq(rows[j], rows[i])

DropDuplicates(t) ==
    LET idx == SelectSeq([i \in 1..NRows(t) |-> i],
                         LAMBDA i : ~Duplicated(t.rows, i))
    IN [t EXCEPT !.rows = [k \in 1..Len(idx) |-> t.rows[idx[k]]]]

RemoveDuplicatesLog(t) ==
    LET removed == NRows(t) - NRows(DropDuplicates(t))
    IN IF removed > 0
       THEN <<LogEntry("INFO", "removed_duplicates", <<>>, NullCell, removed)>>
       ELSE <<>>

\* --------------------------------------------------------- standardize_dates
\* date_patterns = ['date', 'time', 'timestamp', 'dob', 'created', 'updated']
date_patterns ==
    << <<"d", "a", "t", "e">>,
       <<"t", "i", "m", "e">>,
       <<"t", "i", "m", "e", "s", "t", "a", "m", "p">>,
       <<"d", "o", "b">>,
       <<"c", "r", "e", "a", "t", "e", "d">>,
       <<"u", "p", "d", "a", "t", "e", "d">> >>

\* variant of IsDateColumn: the test without col.lower()
IsDateColumnCaseSensitive(name) ==
    \E p \in 1..Len(date_patterns) : Contains(date_patterns[p], name)

\* any(pattern in col.lower() for pattern in date_patterns)
IsDateColumn(name) ==
    \E p \in 1..Len(date_patterns) : Contains(date_patterns[p], Lower(name))

\* the timestamp the date parser reads from a text, "" when it reads none
ParsedText(t) ==
    CASE t = "2024-01-01" -> "2024-01-01 00:00:00"
      [] OTHER -> ""

\* pd.to_datetime(..., errors='coerce') on one cell: a null stays null (NaT),
\* a timestamp stays, a text becomes the timestamp parsed from it or NaT
ToDatetimeCell(c) ==
    CASE c.k = "null" -> NullCell
      [] c.k = "date" -> c
      [] c.k = "str" -> IF ParsedText(c.s) # "" THEN Date(ParsedText(c.s)) ELSE NullCell
      [] OTHER -> NullCell

ToDatetime(c) == [i \in 1..Len(c) |-> ToDatetimeCell(c[i])]

\* whether pd.to_datetime raises on the column although errors='coerce' is
\* given: not for a column of texts, timestamps and nulls, whose failures are
\* all per-cell and coerced to NaT
ToDatetimeRaises(c) == \E i \in 1..Len(c) : c[i].k \notin {"null", "str", "date"}

\* the column is rewritten when its name is date-like and the conversion
\* does not raise; a raising conversion leaves it as it was (except branch)
Converts(t, j) ==
    IsDateColumn(t.cols[j].name) /\ ~ToDatetimeRaises(Column(t, j))

StandardizedTable(t) ==
    [cols |-> [j \in 1..NCols(t) |->
                  IF Converts(t, j)
                  THEN [t.cols[j] EXCEPT !.dtype = "datetime64"]
                  ELSE t.cols[j]],
     rows |-> [i \in 1..NRows(t) |->
                  [j \in 1..NCols(t) |->
                      IF Converts(t, j)
                      THEN ToDatetime(Column(t, j))[i]
                      ELSE t.rows[i][j]]]]

\* per date-like column: a warning with the number of nulls after the
\* conversion when there is one, or the warning of the except branch
DateLog(t, j) ==
    IF ToDatetimeRaises(Column(t, j))
    THEN LogEntry("WARNING", "date_conversion_failed", t.cols[j].name, NullCell, 0)
    ELSE LogEntry("WARNING", "unparseable_dates", t.cols[j].name, NullCell,
                  NullCount(ToDatetime(Column(t, j))))

StandardizeDatesLog(t) ==
    LET idx == SelectSeq([j \in 1..NCols(t) |-> j],
                         LAMBDA j : IsDateColumn(t.cols[j].name)
                                    /\ (ToDatetimeRaises(Column(t, j))
                                        \/ HasNull(ToDatetime(Column(t, j)))))
    IN <<LogEntry("INFO", "standardize_dates", <<>>, NullCell, 0)>>
       \o [k \in 1..Len(idx) |-> DateLog(t, idx[k])]

\* ------------------------------------------------- read_data / save / main
\* variant of ReadSupported: no extension is refused
ReadSupportedAny(ext) == TRUE

\* read_data: ext in ['.csv'] or ext in ['.xlsx', '.xls']
ReadSupported(ext) == ext \in {ExtCsv, ExtXlsx, ExtXls}

\* save_cleaned_data: the extensions for which a serializer is called
WriteSupported(ext) == ext \in {ExtCsv, ExtXlsx, ExtXls}

\* variant of SaveResult: True also from the except branch
SaveResultTrue(ioFails) == TRUE

\* save_cleaned_data's result: False from the except branch, True otherwise
SaveResult(ioFails) == ~ioFails

\* main's exit code after save_cleaned_data returned
ExitAfterSave(ok) == IF ok THEN 0 ELSE 1

\* main's exit code from its except branch
ExitOnException == 1

\* ------------------------------------------------------------------ inputs
NameId == <<"i", "d">>
NameName == <<"n", "a", "m", "e">>
NameData == <<"d", "a", "t", "a">>
NameUpdate == <<"u", "p", "d", "a", "t", "e">>
NameCreatedAt == <<"C", "r", "e", "a", "t", "e", "d", "_", "A", "t">>
NameDob == <<"D", "O", "B">>

Col(name, dtype) == [name |-> name, dtype |-> dtype]

\* the column layouts of the tables explored
Schemas ==
    { <<Col(NameId, "number"), Col(NameName, "object")>>,
      <<Col(NameId, "number"), Col(NameCreatedAt, "object")>>,
      <<Col(NameUpdate, "object"), Col(NameData, "number")>> }

OneColumnSchemas ==
    { <<Col(NameData, "number")>>,
      <<Col(NameDob, "object")>> }

RowBound(schema) == IF Len(schema) = 1 THEN MaxRowsOneColumn ELSE MaxRows

CellsOf(dtype) == IF dtype = "number" THEN NumCells ELSE StrCells

RowsOf(schema) ==
    {r \in [1..Len(schema) -> NumCells \cup StrCells] :
        \A j \in 1..Len(schema) : r[j] \in CellsOf(schema[j].dtype)}

\* every table over a schema with at most max rows
Tables(max) ==
    UNION {UNION {{[cols |-> sc, rows |-> rs] : rs \in [1..n -> RowsOf(sc)]}
                  : n \in 0..max}
           : sc \in Schemas}

\* the dtype pd.read_csv / pd.read_excel gives a column: a number dtype when
\* it holds numbers and blanks only, object otherwise (and when it is empty)
InferredDtype(t, j) ==
    IF NRows(t) > 0 /\ \A i \in 1..NRows(t) : t.rows[i][j].k \in {"num", "null"}
    THEN "number"
    ELSE "object"

ReadTable(t) ==
    [t EXCEPT !.cols = [j \in 1..NCols(t) |->
                           [t.cols[j] EXCEPT !.dtype = InferredDtype(t, j)]]]

\* the tables a file may hold
FileTables == {ReadTable(t) : t \in Tables(MaxRowsMain)}

InputPaths ==
    { <<"i", "n", ".", "c", "s", "v">>,
      <<"I", "N", ".", "X", "L", "S", "X">>,
      <<"a", ".", "x", "l", "s">>,
      <<"i", "n", ".", "t", "x", "t">>,
      <<".", "c", "s", "v">>,
      <<"d", ".", "c", "s", "v", "/", "i", "n">> }

OutputPaths ==
    { <<"o", ".", "c", "s", "v">>,
      <<"O", ".", "X", "L", "S">>,
      <<"o", ".", "t", "x", "t">>,
      <<"o">> }

NoPath == <<>>

\* ------------------------------------------------------------------ actions
\* main() up to line 128: nothing read, nothing written, no exit code yet
Init ==
    /\ pc = "start"
    /\ input \in InputPaths
    /\ output \in OutputPaths
    /\ df = EmptyTable
    /\ prev = EmptyTable
    /\ log = <<>>
    /\ calls = <<>>
    /\ written = <<>>
    /\ success = FALSE
    /\ exitCode = -1
    /\ fault = "none"

\* one pipeline stage called on a table of its own
InitFn ==
    /\ pc = "call"
    /\ input = NoPath
    /\ output = NoPath
    /\ \E sc \in Schemas \cup OneColumnSchemas :
          \E n \in 0..RowBound(sc) :
             \E rs \in [1..n -> RowsOf(sc)] : df = [cols |-> sc, rows |-> rs]
    /\ prev = EmptyTable
    /\ log = <<>>
    /\ calls = <<>>
    /\ written = <<>>
    /\ success = FALSE
    /\ exitCode = -1
    /\ fault = "none"

\* df = read_data(args.input): an unsupported extension raises ValueError, the
\* reader may raise; either is logged and re-raised.  On success main logs the
\* shape of the table.
ReadData ==
    /\ pc = "start"
    /\ calls' = Append(calls, "read_data")
    /\ \E readable \in BOOLEAN, t \in FileTables :
          IF ReadSupported(PathExt(input)) /\ readable
          THEN /\ df' = t
               /\ log' = Append(log, LogEntry("INFO", "original_shape", <<>>,
                                                NullCell, NRows(t)))
               /\ fault' = fault
               /\ pc' = "loaded"
          ELSE /\ df' = df
               /\ log' = Append(log, LogEntry("ERROR", "read_failed", <<>>,
                                                NullCell, 0))
               /\ fault' = IF ReadSupported(PathExt(input))
                           THEN "read_error" ELSE "unsupported_format"
               /\ pc' = "except"
    /\ UNCHANGED <<input, output, prev, written, success, exitCode>>

\* main's except branch: logger.exception(...); return 1
MainExcept ==
    /\ pc = "except"
    /\ log' = Append(log, LogEntry("ERROR", "unexpected_error", <<>>, NullCell, 0))
    /\ exitCode' = ExitOnException
    /\ pc' = "done"
    /\ UNCHANGED <<input, output, df, prev, calls, written, success, fault>>

HandleMissingValues(from, to) ==
    /\ pc = from
    /\ pc' = to
    /\ prev' = df
    /\ df' = FilledTable(df)
    /\ log' = log \o HandleMissingValuesLog(df)
    /\ calls' = Append(calls, "handle_missing_values")
    /\ UNCHANGED <<input, output, written, success, exitCode, fault>>

RemoveDuplicates(from, to) ==
    /\ pc = from
    /\ pc' = to
    /\ prev' = df
    /\ df' = DropDuplicates(df)
    /\ log' = log \o RemoveDuplicatesLog(df)
    /\ calls' = Append(calls, "remove_duplicates")
    /\ UNCHANGED <<input, output, written, success, exitCode, fault>>

StandardizeDates(from, to) ==
    /\ pc = from
    /\ pc' = to
    /\ prev' = df
    /\ df' = StandardizedTable(df)
    /\ log' = log \o StandardizeDatesLog(df)
    /\ calls' = Append(calls, "standardize_dates")
    /\ UNCHANGED <<input, output, written, success, exitCode, fault>>

\* success = save_cleaned_data(df, args.output): the serializer is called for
\* .csv, .xlsx and .xls only and may fail; a failure is logged and False is
\* returned, in every other case the two info lines are logged and True is
\* returned
SaveCleanedData ==
    /\ pc = "dated"
    /\ calls' = Append(calls, "save_cleaned_data")
    /\ \E ioFails \in BOOLEAN :
          LET failed == WriteSupported(PathExt(output)) /\ ioFails
          IN /\ written' = IF WriteSupported(PathExt(output)) /\ ~failed
                           THEN <<df>> ELSE written
             /\ log' = IF failed
                       THEN Append(log, LogEntry("ERROR", "save_failed", <<>>,
                                                 NullCell, 0))
                       ELSE log \o <<LogEntry("INFO", "saved_to", output,
                                              NullCell, 0),
                                     LogEntry("INFO", "final_shape", <<>>,
                                              NullCell, NRows(df))>>
             /\ success' = SaveResult(failed)
             /\ fault' = IF failed THEN "write_error" ELSE fault
    /\ pc' = "saved"
    /\ UNCHANGED <<input, output, df, prev, exitCode>>

\* if success: ... (falls through to return 0)  else: ...; return 1
MainReturn ==
    /\ pc = "saved"
    /\ log' = IF success
              THEN log \o <<LogEntry("INFO", "cleaning_succeeded", <<>>, NullCell, 0),
                            LogEntry("INFO", "duration", <<>>, NullCell, 0)>>
              ELSE Append(log, LogEntry("ERROR", "cleaning_failed", <<>>, NullCell, 0))
    /\ exitCode' = ExitAfterSave(success)
    /\ pc' = "done"
    /\ UNCHANGED <<input, output, df, prev, calls, written, success, fault>>

\* main(): loader -> filler -> deduplicator -> normalizer -> writer
Next ==
    \/ ReadData
    \/ MainExcept
    \/ HandleMissingValues("loaded", "filled")
    \/ RemoveDuplicates("filled", "deduped")
    \/ StandardizeDates("deduped", "dated")
    \/ SaveCleanedData
    \/ MainReturn

Spec == Init /\ [][Next]_vars

\* each stage called once on an arbitrary table
NextFn ==
    \/ HandleMissingValues("call", "return")
    \/ RemoveDuplicates("call", "return")
    \/ StandardizeDates("call", "return")

SpecFn == InitFn /\ [][NextFn]_vars

\* ------------------------------------------------------------------ claims
\* the stage that ran last: prev is the table it was given, df the table it
\* returned
After(fn) == calls # <<>> /\ calls[Len(calls)] = fn

RECURSIVE IsSubsequence(_, _)
IsSubsequence(a, b) ==
    IF a = <<>> THEN TRUE
    ELSE IF b = <<>> THEN FALSE
    ELSE IF a[1] = b[1] THEN IsSubsequence(Tail(a), Tail(b))
    ELSE IsSubsequence(a, Tail(b))

NoTwoEqualRows(t) ==
    \A i, j \in 1..NRows(t) : i # j => t.rows[i] # t.rows[j]

\* the indices of the rows that no earlier row equals
FirstOccurrences(t) ==
    {i \in 1..NRows(t) : \A j \in 1..(i-1) : t.rows[j] # t.rows[i]}

KthOf(S, k) == CHOOSE i \in S : Cardinality({j \in S : j < i}) = k - 1

\* C1: remove_duplicates returns a table in which no two rows are equal (a
\* null cell equal to a null cell), whose rows are a subsequence of the input
\* rows in their order, and which holds of each group of identical rows
\* exactly the earliest one.
C1_RemoveDuplicates ==
    After("remove_duplicates") =>
        /\ df.cols = prev.cols
        /\ NoTwoEqualRows(df)
        /\ IsSubsequence(df.rows, prev.rows)
        /\ NRows(df) = Cardinality(FirstOccurrences(prev))
        /\ \A k \in 1..NRows(df) :
              df.rows[k] = prev.rows[KthOf(FirstOccurrences(prev), k)]

\* a later copy of a row that holds a null was removed, and a different row
\* between the two copies survived
C1_Witness ==
    /\ After("remove_duplicates")
    /\ NRows(df) >= 2
    /\ \E i, j, m \in 1..NRows(prev) :
          /\ i < m /\ m < j
          /\ prev.rows[i] = prev.rows[j]
          /\ prev.rows[m] # prev.rows[i]
          /\ \E c \in 1..NCols(prev) : IsNull(prev.rows[i][c])

\* C2: after handle_missing_values every column that had a non-null cell,
\* numeric or not, has no null cell.
C2_NoNullsLeft ==
    After("handle_missing_values") =>
        \A j \in 1..NCols(prev) :
            (\E i \in 1..NRows(prev) : ~IsNull(prev.rows[i][j]))
                => \A i \in 1..NRows(df) : ~IsNull(df.rows[i][j])

\* both a numeric and a text column had two nulls and a value
C2_Witness ==
    /\ After("handle_missing_values")
    /\ \A j \in 1..NCols(prev) :
          /\ NullCount(Column(prev, j)) = 2
          /\ NRows(prev) > 2

\* C3: handle_missing_values changes null cells only: non-null cells keep
\* their value, the columns and the number and order of the rows are kept,
\* and a table without a missing value is returned as it was.
C3_OnlyNullsChange ==
    After("handle_missing_values") =>
        /\ df.cols = prev.cols
        /\ NRows(df) = NRows(prev)
        /\ \A i \in 1..NRows(prev) : \A j \in 1..NCols(prev) :
              ~IsNull(prev.rows[i][j]) => df.rows[i][j] = prev.rows[i][j]
        /\ (\A i \in 1..NRows(prev) : \A j \in 1..NCols(prev) :
               ~IsNull(prev.rows[i][j])) => df = prev

\* a table in which a null was filled beside non-null cells of its column
C3_Witness ==
    /\ After("handle_missing_values")
    /\ \E j \in 1..NCols(prev) :
          /\ \E i \in 1..NRows(prev) : IsNull(prev.rows[i][j]) /\ ~IsNull(df.rows[i][j])
          /\ Cardinality({i \in 1..NRows(prev) : ~IsNull(prev.rows[i][j])}) >= 2

\* the k-th smallest of the numbers of a column (in halves), by counting
KthNumber(c, k) ==
    CHOOSE x \in {c[i].n : i \in {i \in 1..Len(c) : ~IsNull(c[i])}} :
        /\ Cardinality({i \in 1..Len(c) : ~IsNull(c[i]) /\ c[i].n < x}) < k
        /\ Cardinality({i \in 1..Len(c) : ~IsNull(c[i]) /\ c[i].n <= x}) >= k

NonNullCount(c) == Len(c) - NullCount(c)

\* the median of the non-null numbers of a column, in halves
MedianOf(c) ==
    LET m == NonNullCount(c)
    IN IF m % 2 = 1 THEN KthNumber(c, (m + 1) \div 2)
       ELSE (KthNumber(c, m \div 2) + KthNumber(c, m \div 2 + 1)) \div 2

\* v is a most frequent non-null value of the column and, among the most
\* frequent ones, the first in sorted order (the first element of mode())
IsFirstMode(c, v) ==
    /\ \E i \in 1..Len(c) : c[i] = v
    /\ ~IsNull(v)
    /\ \A i \in 1..Len(c) :
          ~IsNull(c[i]) =>
              \/ Count(c, c[i]) < Count(c, v)
              \/ Count(c, c[i]) = Count(c, v) /\ StrRank(v.s) <= StrRank(c[i].s)

\* C4: each column is filled from its own values: a null of a numeric column
\* becomes the median of the column's non-null values; a null of a
\* non-numeric column becomes the column's most frequent non-null value, the
\* first mode on a tie, or "Unknown" when the column has no non-null value.
C4_FillValues ==
    After("handle_missing_values") =>
        \A j \in 1..NCols(prev) : \A i \in 1..NRows(prev) :
            IsNull(prev.rows[i][j]) =>
                LET c == Column(prev, j)
                IN IF NonNullCount(c) = 0
                   THEN prev.cols[j].dtype # "number"
                            => df.rows[i][j] = Str("Unknown")
                   ELSE IF prev.cols[j].dtype = "number"
                   THEN df.rows[i][j] = NumHalves(MedianOf(c))
                   ELSE IsFirstMode(c, df.rows[i][j])

\* a text column whose two modes tie, the one met first not being the first
\* in sorted order, beside a numeric column filled with the median of 1 and 2
C4_Witness ==
    /\ After("handle_missing_values")
    /\ \E j \in 1..NCols(prev) :
          /\ prev.cols[j].dtype = "object"
          /\ \E i1, i2, i3 \in 1..NRows(prev) :
                /\ i1 < i2
                /\ prev.rows[i1][j] = Str("b")
                /\ prev.rows[i2][j] = Str("a")
                /\ IsNull(prev.rows[i3][j])
                /\ df.rows[i3][j] = Str("a")
    /\ \E j \in 1..NCols(prev) :
          /\ prev.cols[j].dtype = "number"
          /\ Count(Column(prev, j), Num(1)) = 1
          /\ Count(Column(prev, j), Num(2)) = 1
          /\ \E i \in 1..NRows(prev) :
                IsNull(prev.rows[i][j]) /\ df.rows[i][j] = NumHalves(3)

\* the six substrings that make a column name date-like
DatePatternSet == {date_patterns[p] : p \in 1..Len(date_patterns)}

\* the lowercased name holds one of the substrings at some offset
IsDateLikeName(name) ==
    \E p \in DatePatternSet : \E o \in 0..(Len(name) - Len(p)) :
        \A k \in 1..Len(p) : LowerChar(name[o + k]) = p[k]

\* what a date-like column's cell must become: the date it denotes when it
\* can be parsed, null when it cannot
IsDateValueOf(after, before) ==
    IF before = Str("2024-01-01")
    THEN after = Date("2024-01-01 00:00:00")
    ELSE IsNull(after)

SupportedInputPaths ==
    { <<"i", "n", ".", "c", "s", "v">>,
      <<"I", "N", ".", "X", "L", "S", "X">>,
      <<"a", ".", "x", "l", "s">> }

LoaderFails == input \notin SupportedInputPaths \/ fault = "read_error"

\* C5: when the Loader fails (extension other than .csv, .xlsx, .xls, or a
\* read failure) read_data logs the error and re-raises it, no later stage is
\* ever invoked, no output is written and main returns 1.
C5_LoaderFailureAborts ==
    /\ (pc # "start" /\ input \notin SupportedInputPaths)
           => fault = "unsupported_format"
    /\ (pc # "start" /\ LoaderFails) =>
           /\ calls = <<"read_data">>
           /\ written = <<>>
           /\ pc \in {"except", "done"}
           /\ log[1] = LogEntry("ERROR", "read_failed", <<>>, NullCell, 0)
           /\ exitCode \in {-1, 1}
           /\ pc = "done" =>
                  /\ exitCode = 1
                  /\ Len(log) = 2
                  /\ log[2].msg = "unexpected_error"

\* a run on a path without a supported extension has ended
C5_Witness ==
    /\ pc = "done"
    /\ fault = "unsupported_format"
    /\ input = <<"i", "n", ".", "t", "x", "t">>
    /\ exitCode = 1

\* C6: on an I/O failure while writing, save_cleaned_data raises nothing: it
\* logs an error and returns False, and main then returns 1.
C6_WriteFailure ==
    fault = "write_error" =>
        /\ After("save_cleaned_data")
        /\ success = FALSE
        /\ written = <<>>
        /\ \E e \in 1..Len(log) : log[e].level = "ERROR" /\ log[e].msg = "save_failed"
        /\ \A e \in 1..Len(log) : log[e].msg # "unexpected_error"
        /\ pc \in {"saved", "done"}
        /\ pc = "done" => exitCode = 1

\* a run in which the write failed has ended
C6_Witness ==
    /\ pc = "done"
    /\ fault = "write_error"
    /\ NRows(df) > 0
    /\ exitCode = 1

\* the output paths whose extension is .csv, .xlsx or .xls in any letter case
SupportedOutputPaths ==
    { <<"o", ".", "c", "s", "v">>,
      <<"O", ".", "X", "L", "S">> }

\* C7: the Writer accepts the Loader's extensions, and main returns 0 only
\* when the table has been serialized to the output path: an output path with
\* another extension is an unsupported-format failure and ends with 1.
C7_ExitZeroOnlyIfWritten ==
    pc = "done" =>
        /\ exitCode = 0 => written = <<df>>
        /\ output \notin SupportedOutputPaths => exitCode = 1

\* C9: for each column handle_missing_values fills, the log line of the column
\* reports the fill value and the number of cells filled, the number of nulls
\* the column had before.
C9_FillLogCount ==
    After("handle_missing_values") =>
        \A j \in 1..NCols(prev) :
            (\E i \in 1..NRows(prev) : IsNull(prev.rows[i][j]) /\ ~IsNull(df.rows[i][j]))
                => \E e \in 1..Len(log) :
                       /\ log[e].col = prev.cols[j].name
                       /\ log[e].msg \in {"fill_median", "fill_mode"}
                       /\ \A i \in 1..NRows(prev) :
                             IsNull(prev.rows[i][j]) => df.rows[i][j] = log[e].val
                       /\ log[e].n = NullCount(Column(prev, j))

\* C10: in every successful run of main the table handed to the Writer has no
\* two identical rows, also after the Date Normalizer rewrote the date-like
\* columns.
C10_NoDuplicatesWritten ==
    /\ After("save_cleaned_data") => NoTwoEqualRows(df)
    /\ (pc = "done" /\ exitCode = 0 /\ written # <<>>) => NoTwoEqualRows(written[1])

====
